---- MODULE Spec2Model ----
(***************************************************************************)
(* Grid-universe systems layer: push_system (systems/push.py) and          *)
(* portal_system (systems/portal.py) over an immutable State snapshot.     *)
(* A State is a record; every system is an operator from State to State.   *)
(***************************************************************************)
EXTENDS Integers, Sequences, FiniteSets, TLC

\* ---------------------------------------------------------------- bounds
MaxCells == 3        \* grids have width * height <= MaxCells
MaxMoves == 2        \* moves of the agent resolved in one step

\* ------------------------------------------------------------ data model
\* The casts of the authored levels: entity 1 is the agent, the others are
\* boxes (pushable, collidable), ghosts (pushable only), walls (blocking),
\* portals, or a box that is already tagged Dead ("dead").
Casts ==
    {<<"agent", "box", "ghost", "wall">>,
     <<"agent", "dead", "ghost", "wall">>,
     <<"agent", "box", "portal", "portal">>}

Entities == UNION {DOMAIN kind : kind \in Casts}

\* An entity id that no store of the state knows (a dangling reference).
MissingEntity == 0

Position(x, y) == [x |-> x, y |-> y]

\* Python's None for an Optional[Position].
None == [x |-> -9, y |-> -9]

Cells(w, h) == {Position(x, y) : x \in 0..(w - 1), y \in 0..(h - 1)}

\* pmap.get(key): the value, or None when the key is absent.
Get(map, key) == IF key \in DOMAIN map THEN map[key] ELSE None

\* pmap.set(key, value): a new map, the receiver is left alone.
Set(map, key, value) ==
    [k \in (DOMAIN map) \cup {key} |-> IF k = key THEN value ELSE map[k]]

\* The four unit moves an action can ask for.
Directions == {<<1, 0>>, <<-1, 0>>, <<0, 1>>, <<0, -1>>}

\* ------------------------------------------------------ utils (grid, ecs)
is_in_bounds(state, pos) ==
    /\ 0 <= pos.x /\ pos.x < state.width
    /\ 0 <= pos.y /\ pos.y < state.height

wrap_position(x, y, width, height) == Position(x % width, y % height)

entities_at(state, pos) ==
    {e \in DOMAIN state.position : state.position[e] = pos}

entities_with_components_at(state, pos, store) ==
    {e \in entities_at(state, pos) : e \in store}

is_blocked_at(state, pos, check_collidable) ==
    \E e \in DOMAIN state.position :
        /\ state.position[e] = pos
        /\ \/ e \in state.blocking
           \/ check_collidable /\ e \in state.collidable

\* ------------------------------------------------------------ utils.trail
\* trail.get(pos, pset())
TrailAt(trail, pos) == IF pos \in DOMAIN trail THEN trail[pos] ELSE {}

add_trail_position(state, entity_id, new_pos) ==
    [state EXCEPT !.trail =
        Set(state.trail, new_pos, TrailAt(state.trail, new_pos) \cup {entity_id})]

get_augmented_trail(state, entity_ids) ==
    LET here(pos) == {e \in entity_ids : Get(state.position, e) = pos}
        cells == (DOMAIN state.trail)
                    \cup {state.position[e] : e \in entity_ids \cap DOMAIN state.position}
    IN  [pos \in cells |-> TrailAt(state.trail, pos) \cup here(pos)]

\* ------------------------------------------------------------ systems/push
\* compute_destination without the wrap and without the bounds test.
compute_destination_unchecked(state, current_pos, next_pos) ==
    Position(next_pos.x + (next_pos.x - current_pos.x),
             next_pos.y + (next_pos.y - current_pos.y))

\* compute_destination with the wrap branch lost: every rule is bounded.
compute_destination_bounded_only(state, current_pos, next_pos) ==
    LET target_position == Position(next_pos.x + (next_pos.x - current_pos.x),
                                    next_pos.y + (next_pos.y - current_pos.y))
    IN  IF ~is_in_bounds(state, target_position) THEN None ELSE target_position

compute_destination(state, current_pos, next_pos) ==
    LET dx == next_pos.x - current_pos.x
        dy == next_pos.y - current_pos.y
        dest_x == next_pos.x + dx
        dest_y == next_pos.y + dy
        target_position == Position(dest_x, dest_y)
    IN  IF state.wrap
        THEN wrap_position(dest_x, dest_y, state.width, state.height)
        ELSE IF ~is_in_bounds(state, target_position)
             THEN None
             ELSE target_position

\* push_system relocating the pushables but leaving the pusher where it was.
push_system_pusher_stays(state, eid, next_pos) ==
    LET current_pos == Get(state.position, eid)
        pushable_ids == entities_with_components_at(state, next_pos, state.pushable)
        push_to == compute_destination(state, current_pos, next_pos)
    IN  IF current_pos = None \/ pushable_ids = {} THEN state
        ELSE IF push_to = None \/ is_blocked_at(state, push_to, TRUE) THEN state
        ELSE [state EXCEPT !.position =
                [k \in DOMAIN state.position |->
                    IF k \in pushable_ids THEN push_to ELSE state.position[k]]]

\* push_system without the is_blocked_at test on the destination.
push_system_unchecked(state, eid, next_pos) ==
    LET current_pos == Get(state.position, eid)
        pushable_ids == entities_with_components_at(state, next_pos, state.pushable)
        push_to == compute_destination(state, current_pos, next_pos)
    IN  IF current_pos = None \/ pushable_ids = {} THEN state
        ELSE IF push_to = None THEN state
        ELSE [state EXCEPT !.position =
                [k \in DOMAIN state.position |->
                    IF k \in pushable_ids THEN push_to
                    ELSE IF k = eid THEN next_pos
                    ELSE state.position[k]]]

\* push_system relocating pushable_ids[0] only.
push_system_first_only(state, eid, next_pos) ==
    LET current_pos == Get(state.position, eid)
        pushable_ids == entities_with_components_at(state, next_pos, state.pushable)
        push_to == compute_destination(state, current_pos, next_pos)
        first == CHOOSE e \in pushable_ids : \A f \in pushable_ids : e <= f
    IN  IF current_pos = None \/ pushable_ids = {} THEN state
        ELSE IF push_to = None \/ is_blocked_at(state, push_to, TRUE) THEN state
        ELSE [state EXCEPT !.position =
                [k \in DOMAIN state.position |->
                    IF k = first THEN push_to
                    ELSE IF k = eid THEN next_pos
                    ELSE state.position[k]]]

\* push_system relocating every entity of next_pos, pushable or not.
push_system_sweeping(state, eid, next_pos) ==
    LET current_pos == Get(state.position, eid)
        pushable_ids == entities_with_components_at(state, next_pos, state.pushable)
        swept == {e \in DOMAIN state.position : state.position[e] = next_pos}
        push_to == compute_destination(state, current_pos, next_pos)
    IN  IF current_pos = None \/ pushable_ids = {} THEN state
        ELSE IF push_to = None \/ is_blocked_at(state, push_to, TRUE) THEN state
        ELSE [state EXCEPT !.position =
                [k \in DOMAIN state.position |->
                    IF k = eid THEN next_pos
                    ELSE IF k \in swept THEN push_to
                    ELSE state.position[k]]]

\* push_system without the early return for an empty pushable_ids: the
\* pusher advances into next_pos when there is nothing to push.
push_system_advances(state, eid, next_pos) ==
    LET current_pos == Get(state.position, eid)
        pushable_ids == entities_with_components_at(state, next_pos, state.pushable)
        push_to == compute_destination(state, current_pos, next_pos)
    IN  IF current_pos = None THEN state
        ELSE IF push_to = None \/ is_blocked_at(state, push_to, TRUE) THEN state
        ELSE [state EXCEPT !.position =
                [k \in DOMAIN state.position |->
                    IF k \in pushable_ids THEN push_to
                    ELSE IF k = eid THEN next_pos
                    ELSE state.position[k]]]

\* The result of add_trail_position inside the loop is dropped by the code:
\* only the position store of the returned state differs from the input.
push_system(state, eid, next_pos) ==
    LET current_pos == Get(state.position, eid)
        pushable_ids == entities_with_components_at(state, next_pos, state.pushable)
        push_to == compute_destination(state, current_pos, next_pos)
        new_position ==
            [k \in (DOMAIN state.position) \cup {eid} |->
                IF k \in pushable_ids THEN push_to
                ELSE IF k = eid THEN next_pos
                ELSE state.position[k]]
    IN  IF current_pos = None THEN state
        ELSE IF pushable_ids = {} THEN state
        ELSE IF push_to = None THEN state
        ELSE IF is_blocked_at(state, push_to, TRUE) THEN state
        ELSE [state EXCEPT !.position = new_position]

\* ---------------------------------------------------------- systems/portal
\* portal_system_entity without the prev_position filter: every collidable
\* entity of the augmented trail is teleported, resting ones included.
portal_system_entity_all_present(state, augmented_trail, portal_id) ==
    LET portal_position == Get(state.position, portal_id)
        has_portal == portal_id \in DOMAIN state.portal
        pair_position == IF has_portal
                         THEN Get(state.position, state.portal[portal_id])
                         ELSE None
        entity_ids == TrailAt(augmented_trail, portal_position) \cap state.collidable
    IN  IF portal_position = None \/ ~has_portal \/ pair_position = None THEN state
        ELSE [state EXCEPT !.position =
                [k \in (DOMAIN state.position) \cup entity_ids |->
                    IF k \in entity_ids THEN pair_position ELSE state.position[k]]]

\* portal_system_entity cancelling the teleport when the paired cell is blocked.
portal_system_entity_checks_blocking(state, augmented_trail, portal_id) ==
    LET portal_position == Get(state.position, portal_id)
        has_portal == portal_id \in DOMAIN state.portal
        pair_position == IF has_portal
                         THEN Get(state.position, state.portal[portal_id])
                         ELSE None
        entity_ids == TrailAt(augmented_trail, portal_position) \cap state.collidable
        entering_entity_ids ==
            {eid \in entity_ids :
                Get(state.prev_position, eid) # Get(state.position, eid)}
    IN  IF portal_position = None \/ ~has_portal \/ pair_position = None THEN state
        ELSE IF is_blocked_at(state, pair_position, TRUE) THEN state
        ELSE [state EXCEPT !.position =
                [k \in (DOMAIN state.position) \cup entering_entity_ids |->
                    IF k \in entering_entity_ids THEN pair_position
                    ELSE state.position[k]]]

\* portal_system_entity without the test of pair_position: the entering
\* entities are set to the position of a pair that has none.
portal_system_entity_unchecked_pair(state, augmented_trail, portal_id) ==
    LET portal_position == Get(state.position, portal_id)
        has_portal == portal_id \in DOMAIN state.portal
        pair_position == IF has_portal
                         THEN Get(state.position, state.portal[portal_id])
                         ELSE None
        entity_ids == TrailAt(augmented_trail, portal_position) \cap state.collidable
        entering_entity_ids ==
            {eid \in entity_ids :
                Get(state.prev_position, eid) # Get(state.position, eid)}
    IN  IF portal_position = None \/ ~has_portal THEN state
        ELSE [state EXCEPT !.position =
                [k \in (DOMAIN state.position) \cup entering_entity_ids |->
                    IF k \in entering_entity_ids THEN pair_position
                    ELSE state.position[k]]]

\* portal_system_entity sending the entering entities to the cell next to
\* the paired portal instead of the paired portal's own cell.
portal_system_entity_beside_pair(state, augmented_trail, portal_id) ==
    LET portal_position == Get(state.position, portal_id)
        has_portal == portal_id \in DOMAIN state.portal
        pair_position == IF has_portal
                         THEN Get(state.position, state.portal[portal_id])
                         ELSE None
        entity_ids == TrailAt(augmented_trail, portal_position) \cap state.collidable
        entering_entity_ids ==
            {eid \in entity_ids :
                Get(state.prev_position, eid) # Get(state.position, eid)}
    IN  IF portal_position = None \/ ~has_portal \/ pair_position = None THEN state
        ELSE [state EXCEPT !.position =
                [k \in (DOMAIN state.position) \cup entering_entity_ids |->
                    IF k \in entering_entity_ids
                    THEN wrap_position(pair_position.x + 1, pair_position.y + 1,
                                       state.width, state.height)
                    ELSE state.position[k]]]

portal_system_entity(state, augmented_trail, portal_id) ==
    LET portal_position == Get(state.position, portal_id)
        has_portal == portal_id \in DOMAIN state.portal
        pair_position == IF has_portal
                         THEN Get(state.position, state.portal[portal_id])
                         ELSE None
        entity_ids == TrailAt(augmented_trail, portal_position) \cap state.collidable
        entering_entity_ids ==
            {eid \in entity_ids :
                Get(state.prev_position, eid) # Get(state.position, eid)}
        state_position ==
            [k \in (DOMAIN state.position) \cup entering_entity_ids |->
                IF k \in entering_entity_ids THEN pair_position
                ELSE state.position[k]]
    IN  IF portal_position = None \/ ~has_portal THEN state
        ELSE IF pair_position = None THEN state
        ELSE [state EXCEPT !.position = state_position]

\* The states the loop of portal_system goes through: the input state, then
\* the state after each portal of `order` (the iteration order of
\* state.portal) has been processed against the one augmented trail.
RECURSIVE portal_loop(_, _, _)
portal_loop(state, augmented_trail, order) ==
    IF order = <<>>
    THEN <<state>>
    ELSE <<state>> \o portal_loop(
            portal_system_entity(state, augmented_trail, Head(order)),
            augmented_trail, Tail(order))

portal_system(state, order) ==
    LET augmented_trail == get_augmented_trail(state, state.collidable)
        visited == portal_loop(state, augmented_trail, order)
    IN  visited[Len(visited)]

\* ------------------------------------------------- movement (step pipeline)
\* move_fn: the cell a unit move leads to, wrapped under the wrap rule.
move_fn(state, current_pos, dir) ==
    IF state.wrap
    THEN wrap_position(current_pos.x + dir[1], current_pos.y + dir[2],
                       state.width, state.height)
    ELSE Position(current_pos.x + dir[1], current_pos.y + dir[2])

movement_system(state, eid, next_pos) ==
    IF eid \notin DOMAIN state.position THEN state
    ELSE IF is_blocked_at(state, next_pos, FALSE) THEN state
    ELSE add_trail_position(
            [state EXCEPT !.position = Set(state.position, eid, next_pos)],
            eid, next_pos)

\* ============================================== level editor (editor_source.py)
\* Smallest width and height the size inputs accept.
MinSize == 3

MaxWidth == 4

MaxHeight == 4

\* The user clicks cells of the rows 0..MaxClickRow only.
MaxClickRow == 0

\* Largest number of edits (clicks and resizes) of one editing session.
MaxEdits == 3

\* Largest floor cost the floor tool is given.
MaxCost == 2

\* The palette tools of the model: the two special tools, one plain entity
\* tool and the portal tool.
Tools == {"floor", "agent", "portal", "erase"}

\* A token dict {"type": ..., "params": {...}}.  The params dict of a floor
\* token is a mutable object, held by reference: obj is its address in the
\* heap, heap[obj] the value of params["cost"].  The params of the other
\* tokens are never written after the token is made.
NoObject == 0

Token(type, obj) == [type |-> type, obj |-> obj]

NoParams == [k \in {} |-> 0]

DefaultCost == 1

\* The cells of a width x height grid in reading order (rows, then columns).
RowMajor(width, height) ==
    [i \in 1..(width * height) |->
        Position((i - 1) % width, (i - 1) \div width)]

HasType(cell, type) == \E i \in 1..Len(cell) : cell[i].type = type

\* next((t for t in cell if t["type"] == "floor"), None), as a sequence of
\* at most one token.
FirstFloor(cell) ==
    LET floors == SelectSeq(cell, LAMBDA t : t.type = "floor")
    IN  IF floors = <<>> THEN <<>> ELSE <<floors[1]>>

\* A grid of fresh floor tokens; their params objects take the heap
\* addresses after base, in reading order.
FreshGrid(width, height, base) ==
    [c \in Cells(width, height) |->
        <<Token("floor", base + c.y * width + c.x + 1)>>]

FreshHeap(width, height) == [i \in 1..(width * height) |-> DefaultCost]

\* st.session_state after _ensure_working_grid(width, height) created the
\* working grid.
ensure_working_grid(width, height) ==
    [keys |-> {"editor_working_grid"},
     width |-> width, height |-> height,
     editor_working_grid |-> FreshGrid(width, height, 0),
     editor_portal_pairs |-> <<>>]

\* _place_tool without the reset of the cell: the new token is appended to
\* whatever the cell holds.
place_tool_stacking(tool_key, x, y, grid, hp, params) ==
    [grid |-> [grid EXCEPT ![Position(x, y)] =
                    Append(@, Token(tool_key, NoObject))],
     heap |-> hp, raised |-> "none"]

\* _place_tool whose floor tool resets the cell to a new floor token of the
\* given cost.
place_tool_floor_resets(tool_key, x, y, grid, hp, params) ==
    LET pos == Position(x, y)
        floor_entry_opt == FirstFloor(grid[pos])
    IN  IF tool_key = "erase"
        THEN IF floor_entry_opt = <<>>
             THEN [grid |-> grid, heap |-> hp, raised |-> "StopIteration"]
             ELSE [grid |-> [grid EXCEPT ![pos] = floor_entry_opt],
                   heap |-> hp, raised |-> "none"]
        ELSE IF tool_key = "floor"
        THEN [grid |-> [grid EXCEPT ![pos] = <<Token("floor", Len(hp) + 1)>>],
              heap |-> Append(hp, IF "cost" \in DOMAIN params
                                  THEN params.cost ELSE DefaultCost),
              raised |-> "none"]
        ELSE IF floor_entry_opt = <<>>
        THEN [grid |-> [grid EXCEPT ![pos] =
                           <<Token("floor", Len(hp) + 1),
                             Token(tool_key, NoObject)>>],
              heap |-> Append(hp, DefaultCost), raised |-> "none"]
        ELSE [grid |-> [grid EXCEPT ![pos] =
                           Append(floor_entry_opt, Token(tool_key, NoObject))],
              heap |-> hp, raised |-> "none"]

\* _place_tool(tool_key, x, y, grid, params): the grid and the heap after
\* the call, and the exception it raised.
place_tool(tool_key, x, y, grid, hp, params) ==
    LET pos == Position(x, y)
        floor_entry_opt == FirstFloor(grid[pos])
    IN  IF tool_key = "erase"
        THEN IF floor_entry_opt = <<>>
             THEN [grid |-> grid, heap |-> hp, raised |-> "StopIteration"]
             ELSE [grid |-> [grid EXCEPT ![pos] = floor_entry_opt],
                   heap |-> hp, raised |-> "none"]
        ELSE IF tool_key = "floor"
        THEN IF floor_entry_opt = <<>>
             THEN [grid |-> [grid EXCEPT ![pos] =
                                <<Token("floor", Len(hp) + 1)>>],
                   heap |-> Append(hp, IF "cost" \in DOMAIN params
                                       THEN params.cost ELSE DefaultCost),
                   raised |-> "none"]
             ELSE IF "cost" \in DOMAIN params
             THEN [grid |-> grid,
                   heap |-> [hp EXCEPT ![floor_entry_opt[1].obj] = params.cost],
                   raised |-> "none"]
             ELSE [grid |-> grid, heap |-> hp, raised |-> "none"]
        ELSE IF floor_entry_opt = <<>>
        THEN [grid |-> [grid EXCEPT ![pos] =
                           <<Token("floor", Len(hp) + 1),
                             Token(tool_key, NoObject)>>],
              heap |-> Append(hp, DefaultCost), raised |-> "none"]
        ELSE [grid |-> [grid EXCEPT ![pos] =
                           Append(floor_entry_opt, Token(tool_key, NoObject))],
              heap |-> hp, raised |-> "none"]

\* The portal cells of a grid in reading order.
PortalCells(grid, width, height) ==
    SelectSeq(RowMajor(width, height), LAMBDA c : HasType(grid[c], "portal"))

\* _pair_portals pairing every portal with its successor in reading order.
pair_portals_chained(grid, width, height) ==
    LET portals == PortalCells(grid, width, height)
    IN  [i \in 1..(IF Len(portals) = 0 THEN 0 ELSE Len(portals) - 1) |->
            <<portals[i], portals[i + 1]>>]

\* _pair_portals(grid): the list stored under "editor_portal_pairs".
pair_portals(grid, width, height) ==
    LET portals == PortalCells(grid, width, height)
    IN  [i \in 1..(Len(portals) \div 2) |->
            <<portals[2 * i - 1], portals[2 * i]>>]

\* The loop over the pairs in _build_level_from_tokens: ref is the
\* portal_pair_ref of the portal spec of every portal cell.
RECURSIVE pair_specs(_, _)
pair_specs(ref, pairs) ==
    IF pairs = <<>> THEN ref
    ELSE LET a_pos == pairs[1][1]
             b_pos == pairs[1][2]
         IN  IF a_pos \in DOMAIN ref /\ b_pos \in DOMAIN ref /\ a_pos # b_pos
             THEN LET paired == [ref EXCEPT ![a_pos] = b_pos]
                  IN  pair_specs(IF paired[b_pos] = None
                                 THEN [paired EXCEPT ![b_pos] = a_pos]
                                 ELSE paired,
                                 Tail(pairs))
             ELSE pair_specs(ref, Tail(pairs))

\* The entity spec a palette builder makes of a token: its type and, for a
\* floor, the cost read from the token's params.
BuildSpec(token, hp) ==
    [type |-> token.type,
     cost |-> IF token.type = "floor" THEN hp[token.obj] ELSE 0]

\* _build_level_from_tokens(cfg): the specs added to every cell and the pair
\* reference of every portal spec.
build_level_from_tokens(cfg, ss, hp) ==
    LET cells == Cells(cfg.width, cfg.height)
        objects == [c \in cells |->
            LET tokens == SelectSeq(cfg.grid_tokens[c],
                                    LAMBDA t : t.type \in Tools \ {"erase"})
            IN  [i \in 1..Len(tokens) |-> BuildSpec(tokens[i], hp)]]
        portal_specs == {c \in cells : HasType(objects[c], "portal")}
        ordered == PortalCells(cfg.grid_tokens, cfg.width, cfg.height)
        pairs == IF "editor_portal_pairs" \in ss.keys
                 THEN ss.editor_portal_pairs
                 ELSE [i \in 1..(Len(ordered) \div 2) |->
                          <<ordered[2 * i - 1], ordered[2 * i]>>]
    IN  [width |-> cfg.width, height |-> cfg.height,
         objects |-> objects,
         portal_pair_ref |-> pair_specs([c \in portal_specs |-> None], pairs)]

\* EditorConfig(width, height, ..., grid_tokens): the tuples copy the rows and
\* the cell lists of the grid, and hold the token dicts of the grid themselves.
EditorConfig(width, height, grid) ==
    [width |-> width, height |-> height, grid_tokens |-> grid]

NoClick == [tool |-> "none", x |-> 0, y |-> 0, params |-> NoParams]

\* The working grid of build_editor_config after its resize step.
resize_working_grid(ss, hp, width, height) ==
    IF ss.height # height \/ ss.width # width
    THEN LET grid == ss.editor_working_grid
             fresh == FreshGrid(width, height, Len(hp))
             kept == {c \in Cells(width, height) :
                         c.y < (IF height < ss.height THEN height ELSE ss.height)
                      /\ c.x < (IF width < ss.width THEN width ELSE ss.width)}
             new_grid == [c \in Cells(width, height) |->
                             IF c \in kept THEN grid[c] ELSE fresh[c]]
         IN  [session_state |-> [ss EXCEPT !.editor_working_grid = new_grid,
                                           !.width = width, !.height = height],
              heap |-> hp \o FreshHeap(width, height)]
    ELSE [session_state |-> ss, heap |-> hp]

\* build_editor_config with the size inputs at width and height and the grid
\* button of click pressed (none for NoClick): a click places the tool,
\* re-pairs the portals after the portal tool and reruns the script, and the
\* run without a click returns the snapshot of the working grid.
build_editor_config(ss, hp, width, height, click) ==
    LET sized == resize_working_grid(ss, hp, width, height)
        grid == sized.session_state.editor_working_grid
        placed == IF click.tool = "none"
                  THEN [grid |-> grid, heap |-> sized.heap, raised |-> "none"]
                  ELSE place_tool(click.tool, click.x, click.y, grid,
                                  sized.heap, click.params)
        paired == IF click.tool = "portal"
                  THEN [sized.session_state EXCEPT
                          !.keys = @ \cup {"editor_portal_pairs"},
                          !.editor_portal_pairs =
                              pair_portals(placed.grid, width, height),
                          !.editor_working_grid = placed.grid]
                  ELSE [sized.session_state EXCEPT
                          !.editor_working_grid = placed.grid]
    IN  [session_state |-> paired, heap |-> placed.heap,
         raised |-> placed.raised,
         cfg |-> EditorConfig(width, height, placed.grid)]

\* to_state(level).agent: one agent entity for every agent spec of the level,
\* named by its cell.
to_state_agent(level) ==
    {c \in DOMAIN level.objects : HasType(level.objects[c], "agent")}

NoEnv == [made |-> FALSE, width |-> 0, height |-> 0]

\* _make_env without the validation of the sample state.
make_env_unvalidated(cfg, ss, hp) ==
    [raised |-> "none",
     env |-> [made |-> TRUE, width |-> cfg.width, height |-> cfg.height]]

\* _make_env(cfg): the exception raised and the environment constructed.
make_env(cfg, ss, hp) ==
    LET sample_state == build_level_from_tokens(cfg, ss, hp)
    IN  IF to_state_agent(sample_state) = {}
        THEN [raised |-> "ValueError", env |-> NoEnv]
        ELSE [raised |-> "none",
              env |-> [made |-> TRUE, width |-> sample_state.width,
                       height |-> sample_state.height]]

\* ------------------------------------------------------------------ state
VARIABLES
    state,   \* the current State snapshot
    pre,     \* the State handed to the last system call
    call,    \* the last system call and its arguments
    visited, \* portal_system: the states its loop went through
    calls,   \* number of system calls made so far in the step
    session_state, \* editor: st.session_state (working grid, portal pairs)
    heap,    \* editor: params["cost"] of every floor token dict, by address
    cfg,     \* editor: the EditorConfig build_editor_config returned last
    env,     \* editor: the environment _make_env constructed last
    kept,    \* editor: the EditorConfig last handed to _make_env, and the
             \* tokens read through it when it was returned
    run,     \* editor: the last editor call and the exception it raised
    history, \* editor: the edits (clicks and resizes) made so far
    before   \* editor: the working grid and the heap the last run of
             \* build_editor_config had after its resize step, and the
             \* params of its click

engine_vars == <<state, pre, call, visited, calls>>

editor_vars == <<session_state, heap, cfg, env, kept, run, history, before>>

vars == <<state, pre, call, visited, calls,
          session_state, heap, cfg, env, kept, run, history, before>>

NoCall ==
    [op |-> "none", eid |-> MissingEntity, dir |-> <<0, 0>>,
     current_pos |-> None, next_pos |-> None, push_to |-> None, order |-> <<>>]

\* ------------------------------------------------------- authored levels
GridSizes ==
    {wh \in (1..MaxCells) \X (1..MaxCells) : wh[1] * wh[2] <= MaxCells}

\* Every entity on a cell of the grid, at most one entity without a position.
Placements(w, h) ==
    {pl \in [Entities -> Cells(w, h) \cup {None}] :
        Cardinality({e \in Entities : pl[e] = None}) <= 1}

\* Pair references of the portals: the first portal is paired with a portal
\* (itself included), every other one with the first or with no entity.
Pairings(portals) ==
    {pr \in [portals -> portals \cup {MissingEntity}] :
        \A p \in portals :
            IF \A q \in portals : p <= q
            THEN pr[p] \in portals
            ELSE pr[p] \in {MissingEntity} \cup {q \in portals : \A r \in portals : q <= r}}

NewState(w, h, wrap, kind, placement, pairing) ==
    LET position == [e \in {e \in Entities : placement[e] # None} |-> placement[e]]
    IN  [width |-> w, height |-> h, wrap |-> wrap,
         position |-> position,
         prev_position |-> position,
         trail |-> [p \in {} |-> {}],
         agent |-> {e \in Entities : kind[e] = "agent"},
         pushable |-> {e \in Entities : kind[e] \in {"box", "ghost", "dead"}},
         collidable |-> {e \in Entities : kind[e] \in {"agent", "box", "dead"}},
         dead |-> {e \in Entities : kind[e] = "dead"},
         blocking |-> {e \in Entities : kind[e] = "wall"},
         portal |-> pairing]

\* ------------------------------------------ level editor: initial state
\* The token types and parameters read through an EditorConfig.
Visible(c, hp) ==
    [pos \in Cells(c.width, c.height) |->
        [i \in 1..Len(c.grid_tokens[pos]) |->
            BuildSpec(c.grid_tokens[pos][i], hp)]]

NoRun == [op |-> "none", raised |-> "none"]

\* The editor when build_editor_config has run once on a width x height
\* grid and nothing was clicked.
EditorStart(width, height) ==
    /\ session_state = ensure_working_grid(width, height)
    /\ heap = FreshHeap(width, height)
    /\ cfg = EditorConfig(width, height, session_state.editor_working_grid)
    /\ env = NoEnv
    /\ kept = [cfg |-> cfg, visible |-> Visible(cfg, heap)]
    /\ run = NoRun
    /\ history = <<>>
    /\ before = [grid |-> session_state.editor_working_grid, heap |-> heap,
                 params |-> NoParams]

EditorSizes == (MinSize..MaxWidth) \X (MinSize..MaxHeight)

Init ==
    /\ EditorStart(MinSize, MinSize)
    /\ \E wh \in GridSizes, wrap \in BOOLEAN, kind \in Casts :
         \E placement \in Placements(wh[1], wh[2]),
            pairing \in Pairings({e \in Entities : kind[e] = "portal"}) :
              state = NewState(wh[1], wh[2], wrap, kind, placement, pairing)
    /\ pre = state
    /\ call = NoCall
    /\ visited = <<>>
    /\ calls = 0

\* ---------------------------------------------------------------- actions
\* One run is the resolution of one step: the agent's moves (push_system,
\* movement_system), then portal_system, which ends the run.
\* Cells a caller passes as next_pos: the cell move_fn yields for the pusher,
\* inside the grid; any cell of the grid for a pusher without a position.
NextPositions(s, eid, dir) ==
    IF eid \in DOMAIN s.position
    THEN {move_fn(s, s.position[eid], dir)} \cap Cells(s.width, s.height)
    ELSE Cells(s.width, s.height)

PushSystem(eid, dir) ==
    /\ calls < MaxMoves
    /\ call.op # "portal"
    /\ \E next_pos \in NextPositions(state, eid, dir) :
         /\ state' = push_system(state, eid, next_pos)
         /\ call' = [NoCall EXCEPT !.op = "push", !.eid = eid, !.dir = dir,
                        !.current_pos = Get(state.position, eid),
                        !.next_pos = next_pos,
                        !.push_to =
                            IF eid \in DOMAIN state.position
                            THEN compute_destination(state, state.position[eid], next_pos)
                            ELSE None]
    /\ pre' = state
    /\ visited' = <<>>
    /\ calls' = calls + 1
    /\ UNCHANGED editor_vars

MovementSystem(eid, dir) ==
    /\ calls < MaxMoves
    /\ call.op # "portal"
    /\ \E next_pos \in NextPositions(state, eid, dir) :
         /\ state' = movement_system(state, eid, next_pos)
         /\ call' = [NoCall EXCEPT !.op = "move", !.eid = eid, !.dir = dir,
                        !.current_pos = Get(state.position, eid),
                        !.next_pos = next_pos]
    /\ pre' = state
    /\ visited' = <<>>
    /\ calls' = calls + 1
    /\ UNCHANGED editor_vars

\* The orders in which a loop can go through the keys of a map.
Orders(keys) ==
    {o \in [1..Cardinality(keys) -> keys] : \A i, j \in DOMAIN o : i # j => o[i] # o[j]}

PortalSystem ==
    /\ call.op # "portal"
    /\ \E order \in Orders(DOMAIN state.portal) :
         /\ state' = portal_system(state, order)
         /\ visited' = portal_loop(state, get_augmented_trail(state, state.collidable), order)
         /\ call' = [NoCall EXCEPT !.op = "portal", !.order = order]
    /\ pre' = state
    /\ calls' = calls + 1
    /\ UNCHANGED editor_vars

Next ==
    \/ \E eid \in state.agent, dir \in Directions : PushSystem(eid, dir)
    \/ \E eid \in state.agent, dir \in Directions : MovementSystem(eid, dir)
    \/ PortalSystem

Spec == Init /\ [][Next]_vars

\* ------------------------------------------- systems called in any order
\* Largest number of system calls of one such run.
MaxCalls == 3

\* push_system(state, eid, next_pos) for any entity and any cell of the grid.
PushCall(eid, next_pos) ==
    /\ calls < MaxCalls
    /\ state' = push_system(state, eid, next_pos)
    /\ call' = [NoCall EXCEPT !.op = "push", !.eid = eid,
                   !.current_pos = Get(state.position, eid),
                   !.next_pos = next_pos,
                   !.dir = IF eid \in DOMAIN state.position
                           THEN <<next_pos.x - state.position[eid].x,
                                  next_pos.y - state.position[eid].y>>
                           ELSE <<0, 0>>,
                   !.push_to =
                       IF eid \in DOMAIN state.position
                       THEN compute_destination(state, state.position[eid], next_pos)
                       ELSE None]
    /\ pre' = state
    /\ visited' = <<>>
    /\ calls' = calls + 1
    /\ UNCHANGED editor_vars

\* portal_system(state), whatever was called before.
PortalCall ==
    /\ calls < MaxCalls
    /\ \E order \in Orders(DOMAIN state.portal) :
         /\ state' = portal_system(state, order)
         /\ visited' = portal_loop(state, get_augmented_trail(state, state.collidable), order)
         /\ call' = [NoCall EXCEPT !.op = "portal", !.order = order]
    /\ pre' = state
    /\ calls' = calls + 1
    /\ UNCHANGED editor_vars

NextCalls ==
    \/ \E eid \in Entities, next_pos \in Cells(state.width, state.height) :
         PushCall(eid, next_pos)
    \/ PortalCall

SpecCalls == Init /\ [][NextCalls]_vars

\* ------------------------------------------------- level editor: actions
\* While the editor is shown no step is resolved: the engine holds a level
\* of one cell with every entity on it.
InitEditor ==
    /\ \E wh \in EditorSizes : EditorStart(wh[1], wh[2])
    /\ state = NewState(1, 1, FALSE, <<"agent", "box", "ghost", "wall">>,
                        [e \in Entities |-> Position(0, 0)],
                        [p \in {} |-> MissingEntity])
    /\ pre = state
    /\ call = NoCall
    /\ visited = <<>>
    /\ calls = 0

\* The parameters the palette hands over with a tool.
ToolParams(tool) ==
    IF tool = "floor" THEN {[cost |-> c] : c \in 1..MaxCost} ELSE {NoParams}

\* One run of build_editor_config with the size inputs at width and height
\* and the click, if any.
BuildEditorConfig(width, height, click) ==
    /\ Len(history) < MaxEdits
    /\ LET r == build_editor_config(session_state, heap, width, height, click)
       IN  /\ session_state' = r.session_state
           /\ heap' = r.heap
           /\ cfg' = IF r.raised = "none" THEN r.cfg ELSE cfg
           /\ run' = [op |-> "build_editor_config", raised |-> r.raised]
    /\ LET sized == resize_working_grid(session_state, heap, width, height)
       IN  before' = [grid |-> sized.session_state.editor_working_grid,
                      heap |-> sized.heap, params |-> click.params]
    /\ history' = Append(history, [width |-> width, height |-> height,
                                   tool |-> click.tool,
                                   pos |-> Position(click.x, click.y)])
    /\ UNCHANGED <<env, kept>>
    /\ UNCHANGED engine_vars

\* The user presses a cell button with a tool selected.
Click(tool, x, y, params) ==
    BuildEditorConfig(session_state.width, session_state.height,
                      [tool |-> tool, x |-> x, y |-> y, params |-> params])

\* The user changes the width or the height input.
Resize(width, height) ==
    /\ <<width, height>> # <<session_state.width, session_state.height>>
    /\ BuildEditorConfig(width, height, NoClick)

\* The application starts a game on the last returned config.
MakeEnv ==
    /\ LET r == make_env(cfg, session_state, heap)
       IN  /\ env' = r.env
           /\ run' = [op |-> "make_env", raised |-> r.raised]
    /\ kept' = [cfg |-> cfg, visible |-> Visible(cfg, heap)]
    /\ UNCHANGED <<session_state, heap, cfg, history, before>>
    /\ UNCHANGED engine_vars

NextEditor ==
    \/ \E tool \in Tools :
         \E x \in 0..(session_state.width - 1), y \in 0..MaxClickRow,
            params \in ToolParams(tool) :
              Click(tool, x, y, params)
    \/ \E wh \in EditorSizes : Resize(wh[1], wh[2])
    \/ MakeEnv

SpecEditor == InitEditor /\ [][NextEditor]_vars


TypeOK ==
    /\ calls \in 0..(MaxMoves + 1)
    /\ DOMAIN state.position \subseteq Entities

\* =================================================== properties: push_system
LastPush == call.op = "push"

\* The cell one step from pos in direction dir: on the torus under the wrap
\* rule, on the unbounded plane otherwise.
OneCellFurther(s, pos, dir) ==
    IF s.wrap
    THEN Position((pos.x + dir[1]) % s.width, (pos.y + dir[2]) % s.height)
    ELSE Position(pos.x + dir[1], pos.y + dir[2])

InGrid(s, pos) == pos \in Cells(s.width, s.height)

PushablesAt(s, pos) == {e \in s.pushable : Get(s.position, e) = pos}

\* Some Blocking or Collidable entity of s is on pos.
Occupied(s, pos) ==
    \E e \in s.blocking \cup s.collidable : Get(s.position, e) = pos

\* The destination of the last push: one cell beyond next_pos.
Destination == OneCellFurther(pre, call.next_pos, call.dir)

PushPrecondition ==
    /\ LastPush
    /\ call.current_pos # None
    /\ PushablesAt(pre, call.next_pos) # {}
    /\ InGrid(pre, Destination)
    /\ ~Occupied(pre, Destination)

\* C1: a push whose pusher has a position, whose next_pos holds a pushable
\* and whose destination is inside the grid and not blocked leaves every
\* pushable of next_pos on the destination and the pusher on next_pos.
C1_SuccessfulPush ==
    PushPrecondition =>
        /\ \A e \in PushablesAt(pre, call.next_pos) :
                Get(state.position, e) = Destination
        /\ Get(state.position, call.eid) = call.next_pos

\* The scenario of the specification: bounded 3x1 grid, agent (0,0), box
\* (1,0), push right; the agent is on (1,0) and the box on (2,0).
C1_Witness ==
    /\ PushPrecondition
    /\ ~pre.wrap /\ pre.width = 3 /\ pre.height = 1
    /\ call.current_pos = Position(0, 0)
    /\ call.next_pos = Position(1, 0)
    /\ Get(pre.position, 2) = Position(1, 0)
    /\ Get(state.position, call.eid) = Position(1, 0)
    /\ Get(state.position, 2) = Position(2, 0)

\* C2: a push whose destination is occupied by a Blocking or Collidable
\* entity returns the prior state: no position changes.
C2_BlockedPush ==
    (LastPush /\ Occupied(pre, Destination)) =>
        /\ state = pre
        /\ state.position = pre.position

\* A wall on the destination of a push of a box: nobody moved.
C2_Witness ==
    /\ LastPush
    /\ call.current_pos # None
    /\ call.current_pos # call.next_pos
    /\ PushablesAt(pre, call.next_pos) # {}
    /\ \E e \in pre.blocking : Get(pre.position, e) = Destination
    /\ state.position = pre.position

PushMovedAll ==
    /\ call.current_pos # None
    /\ Get(state.position, call.eid) = call.next_pos
    /\ \A e \in PushablesAt(pre, call.next_pos) :
            Get(state.position, e) = OneCellFurther(pre, pre.position[e], call.dir)

\* C3: a push on a cell holding N >= 1 pushables either moves all N one cell
\* in the push direction and the pusher into their former cell, or changes
\* no position at all.
C3_PushAtomicity ==
    (LastPush /\ PushablesAt(pre, call.next_pos) # {}) =>
        \/ PushMovedAll
        \/ state.position = pre.position

\* A stack of two pushables moved together with the pusher behind them.
C3_Witness ==
    /\ LastPush
    /\ Cardinality(PushablesAt(pre, call.next_pos)) = 2
    /\ call.current_pos # call.next_pos
    /\ PushMovedAll
    /\ state.position # pre.position

DestinationOutside == ~pre.wrap /\ ~InGrid(pre, Destination)

\* C9: a push by a pusher without a position, on a cell without a pushable,
\* or (not under the wrap rule) towards a destination outside the grid
\* returns the input state; the pusher does not advance.
C9_PushNoOp ==
    (/\ LastPush
     /\ \/ call.current_pos = None
        \/ PushablesAt(pre, call.next_pos) = {}
        \/ DestinationOutside) =>
        /\ state = pre
        /\ Get(state.position, call.eid) = call.current_pos

\* A box on the edge of a bounded grid, pushed outwards: nothing moves.
C9_Witness ==
    /\ LastPush
    /\ call.current_pos # None
    /\ PushablesAt(pre, call.next_pos) # {}
    /\ DestinationOutside
    /\ state = pre

\* C10: compute_destination yields the cell one step beyond next_pos in the
\* direction of motion: on the torus under the wrap rule (never None, also
\* when the pusher's own move crossed the edge), and under any other rule
\* that cell when it is in bounds, None otherwise.
C10_DestinationArithmetic ==
    (LastPush /\ call.current_pos # None) =>
        /\ pre.wrap =>
            /\ call.push_to # None
            /\ InGrid(pre, call.push_to)
            /\ call.push_to =
                 Position((call.next_pos.x + call.dir[1]) % pre.width,
                          (call.next_pos.y + call.dir[2]) % pre.height)
        /\ ~pre.wrap =>
            call.push_to =
                 IF InGrid(pre, Position(call.next_pos.x + call.dir[1],
                                         call.next_pos.y + call.dir[2]))
                 THEN Position(call.next_pos.x + call.dir[1],
                               call.next_pos.y + call.dir[2])
                 ELSE None

\* The pusher's move crossed the right edge of a width-3 torus (x = 2 to
\* x = 0); the destination is x = 1.
C10_Witness ==
    /\ LastPush
    /\ pre.wrap /\ pre.width = 3
    /\ call.current_pos = Position(2, 0)
    /\ call.next_pos = Position(0, 0)
    /\ call.push_to = Position(1, 0)

\* ================================================ properties: portal_system
LastPortal == call.op = "portal"

\* The portal has a position and its pair entity has one.
ValidPortal(s, p) ==
    /\ p \in DOMAIN s.portal
    /\ Get(s.position, p) # None
    /\ Get(s.position, s.portal[p]) # None

PairPosition(s, p) == Get(s.position, s.portal[p])

\* e is in the augmented trail of the call for the cell: its trail of this
\* step holds the cell, or e is on it.
InAugmentedTrail(e, cell) ==
    \/ e \in TrailAt(pre.trail, cell)
    \/ e \in pre.collidable /\ Get(pre.position, e) = cell

\* e, as state s of the loop sees it, entered the cell this step.
Entered(s, e, cell) ==
    /\ e \in s.collidable
    /\ InAugmentedTrail(e, cell)
    /\ Get(s.prev_position, e) # Get(s.position, e)

\* The steps of the loop of the last portal_system call.
LoopSteps == 1..Len(call.order)

\* C4 as stated: every collidable entity that entered the cell of a validly
\* paired portal A is, when portal_system returns, on the position of A's
\* pair B.
C4_TeleportTarget ==
    LastPortal =>
        \A a \in DOMAIN pre.portal : \A e \in Entities :
            (ValidPortal(pre, a) /\ Entered(pre, e, pre.position[a])) =>
                Get(state.position, e) = PairPosition(pre, a)

\* e entered the cell of a validly paired portal other than a.
EnteredOtherPortal(e, a) ==
    \E p \in DOMAIN pre.portal :
        /\ p # a
        /\ ValidPortal(pre, p)
        /\ InAugmentedTrail(e, pre.position[p])

\* C4 (amended): every collidable entity that entered the cell of a validly
\* paired portal A and the cell of no other validly paired portal is, when
\* portal_system returns, on the position of A's pair B.
C4_TeleportTargetSinglePortal ==
    LastPortal =>
        \A a \in DOMAIN pre.portal : \A e \in Entities :
            (/\ ValidPortal(pre, a)
             /\ Entered(pre, e, pre.position[a])
             /\ ~EnteredOtherPortal(e, a)) =>
                Get(state.position, e) = PairPosition(pre, a)

\* An entity that entered A's cell only, A and its pair B on different cells:
\* it left A's cell and is on B's.
C4_Witness ==
    /\ LastPortal
    /\ \E a \in DOMAIN pre.portal : \E e \in Entities :
        /\ ValidPortal(pre, a)
        /\ pre.portal[a] # a
        /\ PairPosition(pre, a) # pre.position[a]
        /\ Get(pre.position, e) = pre.position[a]
        /\ Entered(pre, e, pre.position[a])
        /\ ~EnteredOtherPortal(e, a)
        /\ Get(state.position, e) = PairPosition(pre, a)

\* The steps of the loop that changed the position of e.
Hops(e) ==
    {i \in LoopSteps :
        Get(visited[i + 1].position, e) # Get(visited[i].position, e)}

\* C5: within one portal_system call every entity is relocated by at most
\* one portal.
C5_SingleHop ==
    LastPortal => \A e \in Entities : Cardinality(Hops(e)) <= 1

\* C6: portal_system changes the position of an entity only if it is
\* collidable, in the augmented trail of the cell of a validly paired portal,
\* and moved this step; resting and non-collidable entities keep their
\* position, and no store other than position changes.
C6_OnlyEnteringTeleport ==
    LastPortal =>
        /\ \A e \in Entities :
            Get(state.position, e) # Get(pre.position, e) =>
                /\ e \in pre.collidable
                /\ Get(pre.prev_position, e) # Get(pre.position, e)
                /\ \E p \in DOMAIN pre.portal :
                    /\ ValidPortal(pre, p)
                    /\ InAugmentedTrail(e, pre.position[p])
        /\ state = [pre EXCEPT !.position = state.position]

\* One collidable entity entered a paired portal's cell and was teleported
\* while another, resting on that cell since the start of the step, stayed.
C6_Witness ==
    /\ LastPortal
    /\ \E p \in DOMAIN pre.portal : \E e, f \in pre.collidable :
        /\ ValidPortal(pre, p)
        /\ PairPosition(pre, p) # pre.position[p]
        /\ Get(pre.position, e) = pre.position[p]
        /\ Get(pre.position, f) = pre.position[p]
        /\ Get(pre.prev_position, e) # Get(pre.position, e)
        /\ Get(pre.prev_position, f) = Get(pre.position, f)
        /\ Get(state.position, e) = PairPosition(pre, p)
        /\ Get(state.position, f) = Get(pre.position, f)

\* C7: when the loop processes a validly paired portal whose pair's cell is
\* occupied by a Blocking or Collidable entity, every entering collidable
\* entity is still relocated to that cell.
C7_TeleportIgnoresBlocking ==
    LastPortal =>
        \A i \in LoopSteps : \A e \in Entities :
            (/\ ValidPortal(visited[i], call.order[i])
             /\ Occupied(visited[i], PairPosition(visited[i], call.order[i]))
             /\ Entered(visited[i], e, visited[i].position[call.order[i]])) =>
                Get(visited[i + 1].position, e)
                    = PairPosition(visited[i], call.order[i])

\* An entity teleported onto a paired portal's cell that another collidable
\* or blocking entity occupied.
C7_Witness ==
    /\ LastPortal
    /\ \E i \in LoopSteps : \E e \in Entities :
        /\ ValidPortal(visited[i], call.order[i])
        /\ \E f \in (visited[i].blocking \cup visited[i].collidable) \ {e} :
              Get(visited[i].position, f) = PairPosition(visited[i], call.order[i])
        /\ Entered(visited[i], e, visited[i].position[call.order[i]])
        /\ Get(visited[i].position, e) # PairPosition(visited[i], call.order[i])
        /\ Get(visited[i + 1].position, e) = PairPosition(visited[i], call.order[i])

\* C8: processing a portal that has no position, or whose pair entity is
\* missing or has no position, returns the state unchanged.
C8_InertPortal ==
    LastPortal =>
        \A i \in LoopSteps :
            ~ValidPortal(visited[i], call.order[i]) => visited[i + 1] = visited[i]

\* A portal on the grid whose pair has no position, an entity entering its
\* cell: the state after the portal is the state before it.
C8_Witness ==
    /\ LastPortal
    /\ \E i \in LoopSteps : \E e \in Entities :
        /\ Get(visited[i].position, call.order[i]) # None
        /\ ~ValidPortal(visited[i], call.order[i])
        /\ Entered(visited[i], e, visited[i].position[call.order[i]])
        /\ Get(visited[i].position, e) = visited[i].position[call.order[i]]
        /\ visited[i + 1] = visited[i]

\* ===================================== properties: trails, Dead, degenerate
PushSucceeded ==
    /\ PushPrecondition
    /\ call.current_pos # call.next_pos
    /\ state.position # pre.position

\* C11: after a successful push the movement trail of every relocated
\* pushable entity holds the push destination cell.
C11_TrailExtendedOnPush ==
    PushSucceeded =>
        \A e \in PushablesAt(pre, call.next_pos) :
            e \in TrailAt(state.trail, Destination)

\* C12: an entity tagged Dead has, after push_system and after
\* portal_system, the position it had before.
C12_DeadNotMoved ==
    (LastPush \/ LastPortal) =>
        \A e \in pre.dead : Get(state.position, e) = Get(pre.position, e)

\* Every portal of the input that can teleport is paired with itself.
OnlySelfPairedPortals ==
    /\ \E p \in DOMAIN pre.portal : ValidPortal(pre, p)
    /\ \A p \in DOMAIN pre.portal : ValidPortal(pre, p) => pre.portal[p] = p

\* C13: portal_system on a state whose only working portals are paired with
\* themselves returns the position map of its input, also for entities whose
\* trail passed through the portal's cell and that rest on another cell.
C13_SelfPairedNoOp ==
    (LastPortal /\ OnlySelfPairedPortals) => state.position = pre.position

\* C14: the position map portal_system returns for an input state is the
\* same for every order in which the portals of state.portal are visited.
C14_PortalOrderIndependent ==
    LastPortal =>
        \A order \in Orders(DOMAIN pre.portal) :
            portal_system(pre, order).position = state.position

\* ============================================ properties: the level editor
\* The levels _build_level_from_tokens makes in the current session: of the
\* config returned last and of the config the environment rebuilds on reset.
BuiltLevels ==
    {build_level_from_tokens(c, session_state, heap) : c \in {cfg, kept.cfg}}

\* The pairs _build_level_from_tokens goes through when a stored list exists.
StoredPairs ==
    {session_state.editor_portal_pairs[i] :
        i \in 1..Len(session_state.editor_portal_pairs)}

\* The cells the stored pairs put together with cell a.
StoredPartners(a) ==
    {pr[2] : pr \in {q \in StoredPairs : q[1] = a}}
        \cup {pr[1] : pr \in {q \in StoredPairs : q[2] = a}}

\* C16: in every level built from the authored tokens the pair references of
\* the portal specs are symmetric, never point to the portal itself, no
\* portal is the pair of two portals, and a portal without a partner portal
\* (in no stored pair, or its stored partner cell holds no portal) has no
\* pair reference.
C16_PortalPairingSymmetric ==
    \A level \in BuiltLevels :
        LET ref == level.portal_pair_ref
        IN  /\ \A a \in DOMAIN ref :
                 ref[a] # None =>
                    /\ ref[a] \in DOMAIN ref
                    /\ ref[a] # a
                    /\ ref[ref[a]] = a
            /\ \A a \in DOMAIN ref, b \in DOMAIN ref :
                 (a # b /\ ref[a] # None) => ref[a] # ref[b]
            /\ \A a \in DOMAIN ref :
                 (StoredPartners(a) \cap DOMAIN ref = {}) => ref[a] = None

\* Three portals were placed: two are paired, the third has no partner.
C16_Witness ==
    LET ref == build_level_from_tokens(cfg, session_state, heap).portal_pair_ref
    IN  /\ \E a \in DOMAIN ref : ref[a] # None
        /\ \E a \in DOMAIN ref : ref[a] = None

LastMakeEnv == run.op = "make_env"

\* The cells of a config that hold an agent token.
AgentTokens(c) ==
    {pos \in Cells(c.width, c.height) : HasType(c.grid_tokens[pos], "agent")}

\* C17: _make_env raises ValueError and constructs no environment when the
\* authored tokens hold no agent, and constructs the environment without
\* raising when they hold one.
C17_MissingAgentFails ==
    LastMakeEnv =>
        IF AgentTokens(kept.cfg) = {}
        THEN run.raised = "ValueError" /\ ~env.made
        ELSE run.raised = "none" /\ env.made

\* _make_env was called on an edited level without an agent.
C17_Witness ==
    /\ LastMakeEnv
    /\ history # <<>>
    /\ AgentTokens(kept.cfg) = {}
    /\ run.raised = "ValueError"

\* Every edit so far was a click of the portal tool, each on another cell.
OnlyPortalClicks ==
    /\ history # <<>>
    /\ \A i \in 1..Len(history) : history[i].tool = "portal"
    /\ \A i \in 1..Len(history), j \in 1..Len(history) :
         i # j => history[i].pos # history[j].pos

\* C18: when portals are placed by clicks of the portal tool, the 1st and the
\* 2nd clicked cells are paired with each other, the 3rd and the 4th, and so
\* on.
C18_PairingFollowsClicks ==
    OnlyPortalClicks =>
        LET ref == build_level_from_tokens(cfg, session_state, heap).portal_pair_ref
        IN  \A i \in 1..(Len(history) \div 2) :
                /\ ref[history[2 * i - 1].pos] = history[2 * i].pos
                /\ ref[history[2 * i].pos] = history[2 * i - 1].pos

NumberOf(cell, Test(_)) == Len(SelectSeq(cell, Test))

\* C19: every cell of the working grid holds exactly one floor token and at
\* most one other token, and _place_tool never fails for lack of a floor.
C19_EditorCellInvariant ==
    /\ run.raised # "StopIteration"
    /\ DOMAIN session_state.editor_working_grid
          = Cells(session_state.width, session_state.height)
    /\ \A pos \in DOMAIN session_state.editor_working_grid :
         LET cell == session_state.editor_working_grid[pos]
         IN  /\ NumberOf(cell, LAMBDA t : t.type = "floor") = 1
             /\ NumberOf(cell, LAMBDA t : t.type # "floor") <= 1

\* The grid was resized, a tool was placed and a cell was erased.
C19_Witness ==
    /\ \E i \in 1..Len(history) : history[i].tool = "none"
    /\ \E i \in 1..Len(history) : history[i].tool = "erase"
    /\ \E pos \in DOMAIN session_state.editor_working_grid :
         Len(session_state.editor_working_grid[pos]) = 2

\* C20: the token types and parameters read through an EditorConfig returned
\* earlier are the ones read through it when it was returned.
C20_SnapshotImmutable == Visible(kept.cfg, heap) = kept.visible

\* ============================================ properties: frames and bounds
\* C21: every entity that has a position is on a cell of the grid, after any
\* sequence of push_system calls towards cells of the grid and portal_system
\* calls, under the bounded and under the wrap rule.
C21_PositionsOnGrid ==
    \A e \in DOMAIN state.position : InGrid(state, state.position[e])

\* A push under the wrap rule moved its pushables over the edge of the grid.
C21_Witness ==
    /\ LastPush
    /\ pre.wrap
    /\ call.current_pos # None
    /\ state.position # pre.position
    /\ ~InGrid(pre, Position(call.next_pos.x + call.dir[1],
                             call.next_pos.y + call.dir[2]))

\* The entities the last push may relocate: the pusher and the pushables of
\* next_pos.
PushMovers == {call.eid} \cup PushablesAt(pre, call.next_pos)

\* C22: push_system changes the position of the pusher and of the pushables
\* of next_pos only; every other entity keeps its position, its previous
\* position, its trail entries and its components.
C22_PushFrame ==
    LastPush =>
        /\ \A e \in Entities \ PushMovers :
                Get(state.position, e) = Get(pre.position, e)
        /\ \A e \in Entities \ PushMovers :
                Get(state.prev_position, e) = Get(pre.prev_position, e)
        /\ \A pos \in Cells(pre.width, pre.height) :
                TrailAt(state.trail, pos) \ PushMovers
                    = TrailAt(pre.trail, pos) \ PushMovers
        /\ state.agent = pre.agent
        /\ state.pushable = pre.pushable
        /\ state.collidable = pre.collidable
        /\ state.blocking = pre.blocking
        /\ state.dead = pre.dead
        /\ state.portal = pre.portal

\* A push went through while an entity it does not move stood on next_pos
\* and another on the destination cell.
C22_Witness ==
    /\ LastPush
    /\ call.current_pos # None
    /\ state.position # pre.position
    /\ \E e \in Entities \ PushMovers : Get(pre.position, e) = call.push_to
    /\ \E e \in Entities \ PushMovers : Get(pre.position, e) = call.next_pos

\* The last edit was a click on a cell, and what was clicked.
LastClick == history # <<>> /\ history[Len(history)].tool # "none"

Clicked == history[Len(history)]

\* The token types and parameters of a cell of a working grid.
CellView(grid, hp, pos) ==
    [i \in 1..Len(grid[pos]) |-> BuildSpec(grid[pos][i], hp)]

\* C23: _place_tool changes cell (x, y) of the working grid only; the eraser
\* leaves the floor token of the cell, a non-floor tool leaves the floor
\* token followed by the new token, both with the floor's cost as it was;
\* the floor tool changes the cost of the floor and nothing else.
C23_PlaceToolFrame ==
    LastClick =>
        LET grid == session_state.editor_working_grid
            pos == Clicked.pos
            tool == Clicked.tool
            old == CellView(before.grid, before.heap, pos)
            new == CellView(grid, heap, pos)
            floor_of_old == SelectSeq(old, LAMBDA t : t.type = "floor")
        IN  /\ run.raised # "StopIteration"
            /\ DOMAIN grid = DOMAIN before.grid
            /\ \A c \in DOMAIN grid \ {pos} :
                    CellView(grid, heap, c) = CellView(before.grid, before.heap, c)
            /\ tool = "erase" => new = floor_of_old
            /\ tool \notin {"erase", "floor"} =>
                    new = Append(floor_of_old, [type |-> tool, cost |-> 0])
            /\ tool = "floor" =>
                    new = [i \in 1..Len(old) |->
                              IF old[i].type = "floor"
                              THEN [type |-> "floor", cost |-> before.params.cost]
                              ELSE old[i]]

\* The floor tool changed the cost of the floor of a cell that holds a
\* foreground token.
C23_Witness ==
    /\ LastClick
    /\ Clicked.tool = "floor"
    /\ Len(session_state.editor_working_grid[Clicked.pos]) = 2
    /\ CellView(session_state.editor_working_grid, heap, Clicked.pos)
          # CellView(before.grid, before.heap, Clicked.pos)

\* Cell c of the working grid holds a portal token.
HoldsPortal(c) ==
    /\ c \in DOMAIN session_state.editor_working_grid
    /\ HasType(session_state.editor_working_grid[c], "portal")

\* C24: every stored pair names two distinct cells that hold a portal token
\* now, and the stored pairs are the reading-order pairing of the portals
\* that are on the working grid now.
C24_StoredPairsTrackGrid ==
    "editor_portal_pairs" \in session_state.keys =>
        /\ \A pr \in StoredPairs :
                pr[1] # pr[2] /\ HoldsPortal(pr[1]) /\ HoldsPortal(pr[2])
        /\ session_state.editor_portal_pairs
              = pair_portals(session_state.editor_working_grid,
                             session_state.width, session_state.height)

====
